---- MODULE Spec2Model ----
(***************************************************************************)
(* Model of app.py, the Airbnb Seattle dashboard: a Streamlit script that  *)
(* is re-executed top to bottom on every interaction.  One run is          *)
(*   load_data() -> sidebar widgets -> filtered_df -> export, KPIs, charts *)
(* and the only state that survives a run is the st.cache_data memo of     *)
(* load_data().                                                            *)
(*                                                                         *)
(* A listing row carries the columns the filters and the group-by chains   *)
(* read.  name, cancellation_policy and review_score_avg only pass through *)
(* to px.scatter / px.violin / the "Avg. Rating" card and are left out,    *)
(* and the tables drawn here have no missing values.                       *)
(*                                                                         *)
(* Prices are held in cents, so that int(df['price'].max()) (whole         *)
(* dollars) and the two-decimal KPI format are computed, not assumed.      *)
(* A mean is the pair (sum, cnt); cnt = 0 is NaN.                          *)
(***************************************************************************)
EXTENDS Integers, Sequences, FiniteSets, TLC

VARIABLES
    file,              \* cleaned_listings.csv on disk
    cache,             \* st.cache_data memo of load_data: <<>> or <<result>>
    reads,             \* number of pd.read_csv calls made by this process
    pc,                \* position of the running script
    error,             \* exception that ended the run ("" when none)
    df,                \* table returned by load_data() in this run
    neighborhoods,     \* sidebar multiselect
    room_types,        \* sidebar multiselect
    min_price,         \* sidebar slider, dollars
    max_price,         \* sidebar slider, dollars
    superhost_filter,  \* sidebar checkbox
    filtered_df,
    csv,               \* export handed to the download button
    kpi_listings,      \* text of the "Listings" metric
    kpi_avg_price,     \* text of the "Avg. Price" metric
    top_neigh,         \* chart 1 input
    room_pie,          \* chart 2 input: rows per room type
    top_avail,         \* chart 4 input
    avg_reviews        \* chart 6 input

vars == <<file, cache, reads, pc, error, df, neighborhoods, room_types, min_price,
          max_price, superhost_filter, filtered_df, csv, kpi_listings,
          kpi_avg_price, top_neigh, room_pie, top_avail, avg_reviews>>

---------------------------------------------------------------------------
\* Bounds of the model.
MaxRows == 2        \* rows of a listing table drawn for the whole-script runs
MaxReads == 3       \* storage reads after which no further re-run is started
NumGroups == 11     \* neighbourhoods of a table drawn for the top-N aggregations
MaxTie == 2         \* neighbourhoods of such a table forced onto one common mean

\* .head(10)
TopN == 10

\* Column values of the listing tables drawn for the whole-script runs.
Neighbourhoods == {1, 2}
RoomTypes == {1, 2}
Prices == {0, 100, 150}          \* cents: $0, $1.00, $1.50
Availabilities == {365}
ReviewsPerMonth == {2}

---------------------------------------------------------------------------
\* Integer helpers.
Min2(a, b) == IF a <= b THEN a ELSE b

SetMax(S) == CHOOSE x \in S : \A y \in S : y <= x

SetMin(S) == CHOOSE x \in S : \A y \in S : x <= y

RECURSIVE SortedSeq(_)
\* sorted(values): ascending sequence of a finite set of integers
SortedSeq(S) == IF S = {} THEN <<>> ELSE <<SetMin(S)>> \o SortedSeq(S \ {SetMin(S)})

RECURSIVE SumCol(_, _)
SumCol(t, col) == IF t = <<>> THEN 0 ELSE t[1][col] + SumCol(Tail(t), col)

Column(t, col) == {t[i][col] : i \in DOMAIN t}

---------------------------------------------------------------------------
\* The dataset on disk.

\* One CSV row as read by pd.read_csv; idx is the RangeIndex label.
Listing(i, n, r, p, s, a, m) ==
    [idx |-> i, neighbourhood_cleansed |-> n, room_type |-> r, price |-> p,
     host_is_superhost |-> s, availability_365 |-> a, reviews_per_month |-> m]

ListingValues ==
    {Listing(0, n, r, p, s, a, m) : n \in Neighbourhoods, r \in RoomTypes, p \in Prices,
                                    s \in BOOLEAN, a \in Availabilities,
                                    m \in ReviewsPerMonth}

\* Reading numbers the rows 0, 1, 2, ... in file order.
Reindex(t) == [i \in DOMAIN t |-> [t[i] EXCEPT !.idx = i - 1]]

Tables == UNION {{Reindex(t) : t \in [1..k -> ListingValues]} : k \in 0..MaxRows}

Files ==
    {[status |-> "ok", table |-> t] : t \in Tables}
        \cup {[status |-> "missing", table |-> <<>>],
              [status |-> "malformed", table |-> <<>>]}

---------------------------------------------------------------------------
\* Dataset Loader: @st.cache_data def load_data(): return pd.read_csv(...)

\* pd.read_csv("cleaned_listings.csv"): the table, or the exception raised.
ReadCsv(f) ==
    CASE f.status = "ok" -> [ok |-> TRUE, table |-> f.table, exc |-> ""]
      [] f.status = "missing" -> [ok |-> FALSE, table |-> <<>>, exc |-> "FileNotFoundError"]
      [] OTHER -> [ok |-> FALSE, table |-> <<>>, exc |-> "ParserError"]

\* The memo holds an entry for load_data().
CacheHit(c) == c # <<>>

\* A memo that also stores the exception a call ended with.
CacheWriteAlways(c, res) == <<res>>

\* The memo after the wrapped function ended with res: a returned value is
\* stored, an exception propagates and nothing is stored.
CacheWrite(c, res) == IF res.ok THEN <<res>> ELSE c

\* load_data() with a memo that is written but never looked up: every call
\* reads the file.
LoadDataUncached ==
    /\ pc = "start"
    /\ LET res == ReadCsv(file)
       IN /\ reads' = reads + 1
          /\ cache' = CacheWrite(cache, res)
          /\ df' = res.table
          /\ pc' = IF res.ok THEN "loaded" ELSE "raised"
          /\ error' = res.exc
    /\ UNCHANGED <<file, neighborhoods, room_types, min_price, max_price,
                   superhost_filter, filtered_df, csv, kpi_listings, kpi_avg_price,
                   top_neigh, room_pie, top_avail,
                   avg_reviews>>

\* df = load_data()
LoadData ==
    /\ pc = "start"
    /\ LET hit == CacheHit(cache)
           res == IF hit THEN cache[1] ELSE ReadCsv(file)
       IN /\ reads' = IF hit THEN reads ELSE reads + 1
          /\ cache' = IF hit THEN cache ELSE CacheWrite(cache, res)
          /\ df' = res.table
          /\ pc' = IF res.ok THEN "loaded" ELSE "raised"
          /\ error' = res.exc
    /\ UNCHANGED <<file, neighborhoods, room_types, min_price, max_price,
                   superhost_filter, filtered_df, csv, kpi_listings, kpi_avg_price,
                   top_neigh, room_pie, top_avail,
                   avg_reviews>>

---------------------------------------------------------------------------
\* Sidebar widgets.

\* int(x) of a non-negative amount held in cents: whole dollars, truncated.
ToInt(cents) == cents \div 100

\* int(df['price'].max()), the slider's upper bound; -1 stands for the
\* ValueError int() raises on the NaN that max() gives for a table without rows.
SliderMax(t) == IF t = <<>> THEN -1 ELSE ToInt(SetMax(Column(t, "price")))

\* st.sidebar.slider("Price Range ($)", 0, hi, (50, 500)): a pair lo <= hi
\* inside the bounds.
SliderChoices(hi) == {<<a, b>> \in (0..hi) \X (0..hi) : a <= b}

\* st.sidebar.multiselect(label, sorted(column.unique())): any selection of
\* the options.
MultiselectChoices(t, col) == SUBSET Column(t, col)

Sidebar ==
    /\ pc = "loaded"
    /\ IF SliderMax(df) < 0
          THEN /\ pc' = "raised"
               /\ error' = "ValueError"
               /\ UNCHANGED <<neighborhoods, room_types, min_price, max_price,
                              superhost_filter>>
          ELSE /\ \E ns \in MultiselectChoices(df, "neighbourhood_cleansed"),
                     rs \in MultiselectChoices(df, "room_type"),
                     pr \in SliderChoices(SliderMax(df)),
                     sh \in BOOLEAN :
                     /\ neighborhoods' = ns
                     /\ room_types' = rs
                     /\ min_price' = pr[1]
                     /\ max_price' = pr[2]
                     /\ superhost_filter' = sh
               /\ pc' = "widgets"
               /\ UNCHANGED error
    /\ UNCHANGED <<file, cache, reads, df, filtered_df, csv, kpi_listings,
                   kpi_avg_price, top_neigh, room_pie, top_avail,
                   avg_reviews>>

---------------------------------------------------------------------------
\* Filter Engine.

\* filtered_df['neighbourhood_cleansed'].isin(neighborhoods)
NeighMask(row, sel) == row.neighbourhood_cleansed \in sel

\* filtered_df['room_type'].isin(room_types)
RoomMask(row, sel) == row.room_type \in sel

\* A price mask that forgets the upper bound.
PriceMaskNoUpper(row, lo, hi) == row.price >= lo * 100

\* (filtered_df['price'] >= min_price) & (filtered_df['price'] <= max_price)
PriceMask(row, lo, hi) == row.price >= lo * 100 /\ row.price <= hi * 100

\* filtered_df['host_is_superhost'] == True
SuperhostMask(row) == row.host_is_superhost = TRUE

\* The four steps of lines 58-65 on table t.
FilterSteps(t, ns, rs, lo, hi, sh) ==
    LET f0 == t
        f1 == IF ns # {} THEN SelectSeq(f0, LAMBDA row : NeighMask(row, ns)) ELSE f0
        f2 == IF rs # {} THEN SelectSeq(f1, LAMBDA row : RoomMask(row, rs)) ELSE f1
        f3 == SelectSeq(f2, LAMBDA row : PriceMask(row, lo, hi))
        f4 == IF sh THEN SelectSeq(f3, SuperhostMask) ELSE f3
    IN f4

\* A filter that slices one row too many off the front of its result.
ApplyFilterSkipFirst(t, ns, rs, lo, hi, sh) ==
    LET f == FilterSteps(t, ns, rs, lo, hi, sh)
    IN IF f = <<>> THEN f ELSE Tail(f)

\* A filter that hands its rows back last row first.
ApplyFilterReversed(t, ns, rs, lo, hi, sh) ==
    LET f == FilterSteps(t, ns, rs, lo, hi, sh)
    IN [i \in DOMAIN f |-> f[Len(f) + 1 - i]]

\* filtered_df as lines 58-65 compute it from df and the widget values.
ApplyFilter(t, ns, rs, lo, hi, sh) == FilterSteps(t, ns, rs, lo, hi, sh)

\* Lines 58-65 without the copy: the masks are applied to df itself.
FilterInPlace ==
    /\ pc = "widgets"
    /\ filtered_df' = ApplyFilter(df, neighborhoods, room_types, min_price, max_price,
                                  superhost_filter)
    /\ df' = filtered_df'
    /\ pc' = "filtered"
    /\ UNCHANGED <<file, cache, reads, error, neighborhoods, room_types, min_price,
                   max_price, superhost_filter, csv, kpi_listings, kpi_avg_price,
                   top_neigh, room_pie, top_avail,
                   avg_reviews>>

Filter ==
    /\ pc = "widgets"
    /\ filtered_df' = ApplyFilter(df, neighborhoods, room_types, min_price, max_price,
                                  superhost_filter)
    /\ pc' = "filtered"
    /\ UNCHANGED <<file, cache, reads, error, df, neighborhoods, room_types, min_price,
                   max_price, superhost_filter, csv, kpi_listings, kpi_avg_price,
                   top_neigh, room_pie, top_avail,
                   avg_reviews>>

---------------------------------------------------------------------------
\* Export and KPI cards.

Header == <<"neighbourhood_cleansed", "room_type", "price", "host_is_superhost",
            "availability_365", "reviews_per_month">>

\* filtered_df.to_csv(index=False): the header line, then one line per row
\* without the index label.
ToCsv(t) ==
    [header |-> Header,
     lines |-> [i \in DOMAIN t |->
                   <<t[i].neighbourhood_cleansed, t[i].room_type, t[i].price,
                     t[i].host_is_superhost, t[i].availability_365,
                     t[i].reviews_per_month>>]]

\* A mean that reports 0 for a column without rows.
MeanOrZero(t, col) == [sum |-> SumCol(t, col), cnt |-> IF t = <<>> THEN 1 ELSE Len(t)]

\* Series.mean(): the pair (sum, cnt); cnt = 0 is NaN.
Mean(t, col) == [sum |-> SumCol(t, col), cnt |-> Len(t)]

IsNaN(m) == m.cnt = 0

TwoDigits(n) == IF n < 10 THEN "0" \o ToString(n) ELSE ToString(n)

ThreeDigits(n) == IF n < 100 THEN "0" \o TwoDigits(n) ELSE ToString(n)

RECURSIVE FormatCount(_)
\* f"{n:,}"
FormatCount(n) ==
    IF n < 1000 THEN ToString(n)
    ELSE FormatCount(n \div 1000) \o "," \o ThreeDigits(n % 1000)

\* Whole cents nearest to sum/cnt; both neighbours when sum/cnt lies exactly
\* half-way, where the result depends on the binary value of the float.
NearestCents(m) ==
    LET q == m.sum \div m.cnt
        r == m.sum % m.cnt
    IN IF 2 * r < m.cnt THEN {q} ELSE IF 2 * r > m.cnt THEN {q + 1} ELSE {q, q + 1}

\* f"${mean:.2f}" of a mean held in cents: the texts the format can give.
FormatMoney(m) ==
    IF IsNaN(m) THEN {"$nan"}
    ELSE {"$" \o ToString(c \div 100) \o "." \o TwoDigits(c % 100) : c \in NearestCents(m)}

---------------------------------------------------------------------------
\* Aggregation Layer.

\* The rows of t whose column col holds k.
RowsWith(t, col, k) == SelectSeq(t, LAMBDA row : row[col] = k)

\* t.groupby(by)[val].mean(): one (key, mean) entry per key, keys ascending.
GroupMean(t, by, val) ==
    LET keys == SortedSeq(Column(t, by))
    IN [i \in DOMAIN keys |->
           [key |-> keys[i],
            sum |-> SumCol(RowsWith(t, by, keys[i]), val),
            cnt |-> Len(RowsWith(t, by, keys[i]))]]

\* mean of a < mean of b, for entries of non-empty groups
MeanLess(a, b) == a.sum * b.cnt < b.sum * a.cnt

MeanEq(a, b) == a.sum * b.cnt = b.sum * a.cnt

RECURSIVE DescOrders(_, _)
\* The arrangements of the entries g[i], i \in S, with non-increasing means.
DescOrders(g, S) ==
    IF S = {} THEN {<<>>}
    ELSE UNION {{<<g[i]>> \o rest : rest \in DescOrders(g, S \ {i})} :
                 i \in {j \in S : \A k \in S : ~MeanLess(g[j], g[k])}}

RECURSIVE AscOrders(_, _)
\* The arrangements of the entries g[i], i \in S, with non-decreasing means.
AscOrders(g, S) ==
    IF S = {} THEN {<<>>}
    ELSE UNION {{<<g[i]>> \o rest : rest \in AscOrders(g, S \ {i})} :
                 i \in {j \in S : \A k \in S : ~MeanLess(g[k], g[j])}}

\* g.sort_values(): ascending, the same default kind.
SortValues(g) == AscOrders(g, DOMAIN g)

\* A descending sort that leaves out ascending=False.
SortValuesAsc(g) == AscOrders(g, DOMAIN g)

\* g.sort_values(ascending=False): kind defaults to 'quicksort', which is not
\* a stable sort, so entries with equal means come out in any order.
SortValuesDesc(g) == DescOrders(g, DOMAIN g)

\* s.head(n)
HeadN(s, n) == SubSeq(s, 1, Min2(n, Len(s)))

\* The chain with head(10) taken before the sort.
TopMeanByHeadFirst(t, val) ==
    SortValuesDesc(HeadN(GroupMean(t, "neighbourhood_cleansed", val), TopN))

\* filtered_df.groupby("neighbourhood_cleansed")[val].mean()
\*     .sort_values(ascending=False).head(10): the results the call can give.
TopMeanBy(t, val) ==
    {HeadN(o, TopN) : o \in SortValuesDesc(GroupMean(t, "neighbourhood_cleansed", val))}

\* px.pie(filtered_df, names="room_type"): the number of rows per room type.
RoomTypeCounts(t) ==
    {<<k, Len(RowsWith(t, "room_type", k))>> : k \in Column(t, "room_type")}

\* Lines 69-123: export, KPI cards and charts, all read from filtered_df.
Present ==
    /\ pc = "filtered"
    /\ csv' = ToCsv(filtered_df)
    /\ kpi_listings' = FormatCount(Len(filtered_df))
    /\ kpi_avg_price' \in FormatMoney(Mean(filtered_df, "price"))
    /\ top_neigh' \in TopMeanBy(filtered_df, "price")
    /\ room_pie' = RoomTypeCounts(filtered_df)
    /\ top_avail' \in TopMeanBy(filtered_df, "availability_365")
    /\ avg_reviews' \in SortValues(GroupMean(filtered_df, "room_type", "reviews_per_month"))
    /\ pc' = "done"
    /\ UNCHANGED <<file, cache, reads, error, df, neighborhoods, room_types, min_price,
                   max_price, superhost_filter, filtered_df>>

---------------------------------------------------------------------------
\* The export before line 69 has run.
NoCsv == [header |-> <<>>, lines |-> <<>>]

\* The script's names before anything is assigned.
Fresh ==
    /\ pc = "start"
    /\ error = ""
    /\ df = <<>>
    /\ neighborhoods = {}
    /\ room_types = {}
    /\ min_price = 0
    /\ max_price = 0
    /\ superhost_filter = FALSE
    /\ filtered_df = <<>>
    /\ csv = NoCsv
    /\ kpi_listings = ""
    /\ kpi_avg_price = ""
    /\ top_neigh = <<>>
    /\ room_pie = {}
    /\ top_avail = <<>>
    /\ avg_reviews = <<>>

\* An interaction (or a reload after a failure) starts the script again in
\* the same process; only the memo survives.
Rerun ==
    /\ pc \in {"done", "raised"}
    /\ reads < MaxReads
    /\ pc' = "start"
    /\ error' = ""
    /\ df' = <<>>
    /\ neighborhoods' = {}
    /\ room_types' = {}
    /\ min_price' = 0
    /\ max_price' = 0
    /\ superhost_filter' = FALSE
    /\ filtered_df' = <<>>
    /\ csv' = NoCsv
    /\ kpi_listings' = ""
    /\ kpi_avg_price' = ""
    /\ top_neigh' = <<>>
    /\ room_pie' = {}
    /\ top_avail' = <<>>
    /\ avg_reviews' = <<>>
    /\ UNCHANGED <<file, cache, reads>>

Init ==
    /\ file \in Files
    /\ cache = <<>>
    /\ reads = 0
    /\ Fresh

Next == LoadData \/ Sidebar \/ Filter \/ Present \/ Rerun

Spec == Init /\ [][Next]_vars

---------------------------------------------------------------------------
\* Listing tables for the top-N aggregations: NumGroups neighbourhoods of two
\* rows each, in whole-dollar prices.  Neighbourhood g has mean price g dollars
\* and mean availability NumGroups + 1 - g days, except that in column c the
\* neighbourhoods of T (at most MaxTie of them) all have the mean v, which
\* puts ties anywhere in that column's ranking, also at the cut-off.

AggPrice(g, T, v, c) == IF c = "price" /\ g \in T THEN v ELSE g

AggAvail(g, T, v, c) ==
    IF c = "availability_365" /\ g \in T THEN v ELSE NumGroups + 1 - g

\* Row i of the file: the neighbourhoods in descending order, twice; the two
\* rows of an odd neighbourhood lie one unit below and above its mean.
AggRow(i, T, v, c) ==
    LET g == NumGroups - ((i - 1) % NumGroups)
        d == IF i <= NumGroups THEN 0 - (g % 2) ELSE g % 2
    IN Listing(i - 1, g, 1, (AggPrice(g, T, v, c) + d) * 100, g % 2 = 0,
               AggAvail(g, T, v, c) + d, 2)

AggTables ==
    {[i \in 1..(2 * NumGroups) |-> AggRow(i, T, v, c)] :
        T \in {U \in SUBSET (1..NumGroups) : Cardinality(U) <= MaxTie},
        v \in 1..NumGroups,
        c \in {"price", "availability_365"}}

\* A run that has loaded such a table, left every widget on "no restriction"
\* with the slider on its full range, and has just filtered.
InitAgg ==
    /\ file \in {[status |-> "ok", table |-> t] : t \in AggTables}
    /\ cache = <<ReadCsv(file)>>
    /\ reads = 1
    /\ pc = "filtered"
    /\ error = ""
    /\ df = file.table
    /\ neighborhoods = {}
    /\ room_types = {}
    /\ min_price = 0
    /\ max_price = SliderMax(file.table)
    /\ superhost_filter = FALSE
    /\ filtered_df = ApplyFilter(file.table, {}, {}, 0, SliderMax(file.table), FALSE)
    /\ csv = NoCsv
    /\ kpi_listings = ""
    /\ kpi_avg_price = ""
    /\ top_neigh = <<>>
    /\ room_pie = {}
    /\ top_avail = <<>>
    /\ avg_reviews = <<>>

NextAgg == Present

SpecAgg == InitAgg /\ [][NextAgg]_vars

---------------------------------------------------------------------------
\* Properties.

\* The run has computed filtered_df.
Filtered == pc \in {"filtered", "done"}

\* C1: every row of the filtered table is a row of the loaded table and
\* satisfies every active predicate: neighbourhood in the selection when one
\* is made, room type in the selection when one is made, min_price <= price
\* <= max_price, and superhost when the checkbox is ticked.
C1_FilteredRowsSatisfyCriteria ==
    Filtered =>
        \A i \in DOMAIN filtered_df :
            LET row == filtered_df[i]
            IN /\ \E j \in DOMAIN df : df[j] = row
               /\ neighborhoods # {} => row.neighbourhood_cleansed \in neighborhoods
               /\ room_types # {} => row.room_type \in room_types
               /\ min_price * 100 <= row.price
               /\ row.price <= max_price * 100
               /\ superhost_filter => row.host_is_superhost

\* All four filters are active, some rows pass and some are dropped.
C1_Witness ==
    /\ pc = "filtered"
    /\ neighborhoods # {}
    /\ room_types # {}
    /\ superhost_filter
    /\ filtered_df # <<>>
    /\ Len(filtered_df) < Len(df)

\* C2: with nothing selected, the checkbox unticked and the slider on its
\* full range 0..int(max price), the filtered table equals the loaded table.
C2_FullRangeKeepsEveryRow ==
    ( /\ Filtered
      /\ neighborhoods = {}
      /\ room_types = {}
      /\ ~superhost_filter
      /\ min_price = 0
      /\ max_price = SliderMax(df) ) => filtered_df = df

\* C3: once load_data() has returned a table, no later step reads the file
\* or changes the memo, and every later call returns the memoized table.
C3_LoaderMemoized ==
    [][cache # <<>> =>
          /\ reads' = reads
          /\ cache' = cache
          /\ pc = "start" => (pc' = "loaded" /\ df' = cache[1].table)]_vars

\* A re-run is about to call load_data() with the memo filled by an earlier run.
C3_Witness == pc = "start" /\ cache # <<>> /\ reads = 1

\* C4: when the criteria select no row the render still completes: the
\* "Avg. Price" card shows NaN (neither a number nor zero), every chart
\* aggregation is empty and the export holds the header line alone.
C4_EmptyResultRenders ==
    /\ (pc = "filtered" /\ filtered_df = <<>>) => ENABLED Present
    /\ (pc = "done" /\ filtered_df = <<>>) =>
          /\ error = ""
          /\ kpi_listings = "0"
          /\ kpi_avg_price = "$nan"
          /\ top_neigh = <<>>
          /\ top_avail = <<>>
          /\ avg_reviews = <<>>
          /\ room_pie = {}
          /\ csv = [header |-> Header, lines |-> <<>>]

\* A table with rows, criteria that select none of them, render finished.
C4_Witness == pc = "done" /\ df # <<>> /\ filtered_df = <<>>

\* C5 as stated: after a failed load the source is never read again, so an
\* unreadable file is read once in the life of the process.
C5_FailedLoadReadOnce == file.status # "ok" => reads <= 1

\* C5 as the code has it: a failed load stores nothing in the memo and ends
\* the run; within a run nothing reads the file again, and every later re-run
\* calls load_data(), which reads the file once more and fails again.
C5_FailedLoadReadAgainEachRun ==
    [][file.status # "ok" =>
          /\ cache' = <<>>
          /\ IF pc = "start"
                THEN reads' = reads + 1 /\ pc' = "raised"
                ELSE reads' = reads]_vars

\* The file is unreadable and a second run has read it again and failed.
C5_Witness == file.status # "ok" /\ reads >= 2 /\ pc = "raised"

\* The (neighbourhood, mean) entries the grouping step gives for column val.
Grouped(val) == GroupMean(filtered_df, "neighbourhood_cleansed", val)

\* C6: the mean-price-by-neighbourhood result has at most 10 entries (all of
\* them when there are no more than 10 neighbourhoods), each the mean price of
\* a different neighbourhood of the filtered table, in non-increasing order of
\* mean, and no neighbourhood left out has a mean above one that is included.
C6_TopNeighHighestMeans ==
    pc = "done" =>
        LET g == Grouped("price")
            keys == {top_neigh[i].key : i \in DOMAIN top_neigh}
        IN /\ Len(top_neigh) <= 10
           /\ Len(top_neigh) = Min2(10, Len(g))
           /\ \A i \in DOMAIN top_neigh : \E j \in DOMAIN g : g[j] = top_neigh[i]
           /\ Cardinality(keys) = Len(top_neigh)
           /\ \A i, j \in DOMAIN top_neigh :
                  i < j => ~MeanLess(top_neigh[i], top_neigh[j])
           /\ \A j \in DOMAIN g :
                  g[j].key \notin keys =>
                      \A i \in DOMAIN top_neigh : ~MeanLess(top_neigh[i], g[j])

\* More than 10 neighbourhoods, so the result was cut to 10 entries.
C6_Witness == pc = "done" /\ Len(Grouped("price")) > TopN /\ Len(top_neigh) = TopN

RECURSIVE StableDesc(_, _)
\* The entries g[i], i \in S, by non-increasing mean, equal means in the order
\* of g: what a stable descending sort gives.
StableDesc(g, S) ==
    IF S = {} THEN <<>>
    ELSE LET i == SetMin({j \in S : \A k \in S : ~MeanLess(g[j], g[k])})
         IN <<g[i]>> \o StableDesc(g, S \ {i})

\* The first 10 entries of the stable descending sort of the entries g.
StableTop(g) == HeadN(StableDesc(g, DOMAIN g), TopN)

\* C8 as stated: in both top-10 results, neighbourhoods with equal means keep
\* the relative order of the grouping step, also at the cut-off.
C8_TiesKeepGroupingOrder ==
    pc = "done" => (top_neigh = StableTop(Grouped("price")) /\
                    top_avail = StableTop(Grouped("availability_365")))

\* top is, position by position, an entry of g with the mean that the stable
\* top 10 of g has there.
SameMeansAsStableTop(top, g) ==
    LET st == StableTop(g)
    IN /\ Len(top) = Len(st)
       /\ \A i \in DOMAIN top :
              /\ MeanEq(top[i], st[i])
              /\ \E j \in DOMAIN g : g[j] = top[i]

\* C8 as the code has it: both top-10 results carry, position by position,
\* the same mean as the stable sort would, and each entry is an entry of the
\* grouping; which of several neighbourhoods with that mean stands at a
\* position, and which of them survive the cut-off, is not determined.
C8_TiesInAnyOrder ==
    pc = "done" =>
        /\ SameMeansAsStableTop(top_neigh, Grouped("price"))
        /\ SameMeansAsStableTop(top_avail, Grouped("availability_365"))

\* Mean prices tie across the cut-off, and the cut-off kept a neighbourhood
\* that the stable sort would have dropped.
C8_Witness ==
    /\ pc = "done"
    /\ Len(Grouped("price")) > TopN
    /\ LET st == StableTop(Grouped("price"))
       IN {top_neigh[i].key : i \in DOMAIN top_neigh} # {st[i].key : i \in DOMAIN st}

\* C7: applying the criteria to the filtered table gives the filtered table
\* again, row for row.
C7_FilterIdempotent ==
    Filtered =>
        ApplyFilter(filtered_df, neighborhoods, room_types, min_price, max_price,
                    superhost_filter) = filtered_df

\* The criteria dropped some rows and kept others.
C7_Witness ==
    /\ pc = "filtered"
    /\ filtered_df # <<>>
    /\ Len(filtered_df) < Len(df)
    /\ ~superhost_filter

\* C9: rows that survive filtering stand in the order they have in the
\* loaded table.
C9_RowOrderPreserved ==
    Filtered =>
        /\ \A i \in DOMAIN filtered_df : df[filtered_df[i].idx + 1] = filtered_df[i]
        /\ \A i, j \in DOMAIN filtered_df :
               i < j => filtered_df[i].idx < filtered_df[j].idx

\* Two rows survive a filter that is switched on.
C9_Witness ==
    /\ pc = "filtered"
    /\ Len(filtered_df) >= 2
    /\ (neighborhoods # {} \/ room_types # {} \/ superhost_filter)

\* C10: whatever a run does after load_data() returned, the table it was
\* given and the memoized table stay what was read from the file.
C10_LoadedTableNeverChanged ==
    /\ cache # <<>> => cache = <<[ok |-> TRUE, table |-> file.table, exc |-> ""]>>
    /\ pc \in {"loaded", "widgets", "filtered", "done"} => df = file.table
    /\ (pc = "raised" /\ error = "ValueError") => df = file.table

\* A render has filtered rows out, exported and charted.
C10_Witness ==
    /\ pc = "done"
    /\ Len(filtered_df) < Len(df)
    /\ csv.lines # <<>>
    /\ top_neigh # <<>>

====
